---------------------------- MODULE Spec2Model ----------------------------
(***************************************************************************)
(* A model of the orchestration logic of the lg-agents repository:         *)
(*   - colleges_reducer, the merge-by-name reducer of the colleges channel  *)
(*     (agents/college_finder_agent/college_agent_schema.py);               *)
(*   - the marketing graph: its nodes, their partial updates, the static    *)
(*     edge list and the super-step execution of the compiled graph         *)
(*     (agents/marketing_agent/marketing_agent.py);                         *)
(*   - VacationHouseAgent: the sequential task list and run()               *)
(*     (crew_agents/vacation_house_agent.py).                               *)
(* Language-model and web responses are inputs: they are drawn from small   *)
(* sets wherever the code calls out.                                        *)
(***************************************************************************)
EXTENDS Integers, Sequences, FiniteSets, TLC

VARIABLES
    agent,          \* what is run: "colleges_reducer" | "college_finder" |
                    \*   "college_finder_branches" | "marketing" |
                    \*   "vacation_house"
    \* one call of colleges_reducer as a pure function
    arg_current,    \* the list passed as current
    arg_update,     \* the Optional list passed as update
    ret,            \* the value returned
    ret_ref,        \* the list object returned: "current" | "copy" ("none" before)
    current_after,  \* the contents of the list passed as current, after the call
    rpc,            \* "idle" | "call" | "returned"
    \* the colleges channel of CollegeFinderState
    colleges,       \* the channel's value
    last_update,    \* the update most recently merged into the channel
    \* the colleges updates of two concurrent branches, merged in both orders
    branch_current, \* the channel's value before the super-step
    branch_u1,      \* the update one branch returns
    branch_u2,      \* the update the other branch returns
    merged12,       \* the channel after merging u1, then u2
    merged21,       \* the channel after merging u2, then u1
    branch_pc,      \* "idle" | "merge" | "merged"
    \* one run of the compiled marketing graph
    mstate,         \* the shared state: a function from the keys set so far
    pending,        \* nodes triggered for the current super-step, not started
    active,         \* nodes started and not yet returned
    started,        \* the nodes in the order they started
    completed,      \* the nodes in the order they returned
    writes,         \* the updates returned in this super-step, in return order
    response,       \* the structured response the last returned node received
    mstatus,        \* "idle" | "running" | "finished" | "raised" | "InvalidUpdateError"
    mexc,           \* the exception a node raised, NoException while none has
    fc,             \* finalize_competitors' frame: pc, loop index, results, trace
    \* one call of VacationHouseAgent.run
    crew_pc,        \* "idle" | "kickoff" | "returned" | "raised"
    input_data,     \* run's argument
    crew_running,   \* the task being executed, "none" between tasks
    task_outputs,   \* the tasks finished so far, in order, with their outputs
    kickoff_result, \* how crew.kickoff() ended: its value or its exception
    run_ret,        \* what run returned
    run_raised,     \* the exception run raised, NoException when it returned
    prints          \* the print calls of run (lines 249, 252) and how each ended

\* agent never changes; it is kept with the reducer call's variables
reducerVars == <<agent, arg_current, arg_update, ret, ret_ref, current_after, rpc>>
channelVars == <<colleges, last_update>>
branchVars == <<branch_current, branch_u1, branch_u2, merged12, merged21, branch_pc>>
marketVars == <<mstate, pending, active, started, completed, writes, response,
                mstatus, mexc, fc>>
crewVars == <<crew_pc, input_data, crew_running, task_outputs, kickoff_result,
              run_ret, run_raised, prints>>
vars == <<agent, arg_current, arg_update, ret, ret_ref, current_after, rpc,
          colleges, last_update,
          branch_current, branch_u1, branch_u2, merged12, merged21, branch_pc,
          mstate, pending, active, started, completed, writes, response,
          mstatus, mexc, fc,
          crew_pc, input_data, crew_running, task_outputs, kickoff_result,
          run_ret, run_raised, prints>>

(***************************************************************************)
(* Bounds of the model.                                                    *)
(***************************************************************************)
MaxCurrent == 2        \* longest list passed as current
MaxUpdate == 3         \* longest list passed as update
MaxChannelUpdate == 2  \* longest update a node returns for the colleges channel
MaxBranchCurrent == 2  \* longest colleges list two concurrent branches start from
MaxBranchUpdate == 2   \* longest colleges update of one of two concurrent branches
MaxPersonasArg == 3    \* max_personas is drawn from -MaxPersonasArg..MaxPersonasArg
MaxResponsePersonas == 3   \* most personas in one model response
MaxSearchResults == 2  \* most search results one web search returns

(***************************************************************************)
(* Generic helpers.                                                        *)
(***************************************************************************)
Range(s) == {s[i] : i \in 1..Len(s)}

SeqsUpTo(S, n) == UNION {[1..k -> S] : k \in 0..n}

IsPrefix(a, b) == Len(a) <= Len(b) /\ a = SubSeq(b, 1, Len(a))

Min(a, b) == IF a <= b THEN a ELSE b

Max(a, b) == IF a >= b THEN a ELSE b

(***************************************************************************)
(* Exceptions: the class and the message.  except Exception catches the    *)
(* instances of Exception; CancelledError, KeyboardInterrupt, SystemExit   *)
(* and GeneratorExit derive from BaseException only and pass through it.   *)
(***************************************************************************)
BaseExceptionOnly ==
    {"CancelledError", "KeyboardInterrupt", "SystemExit", "GeneratorExit"}

\* isinstance(e, Exception)
IsException(e) == e.class \notin BaseExceptionOnly

NoException == [class |-> "none", msg |-> ""]

\* state[k] with k missing
KeyError(k) == [class |-> "KeyError", msg |-> k]

\* what print raises when stdout cannot take the text or is closed (the
\* prints of analyze_site, of finalize_competitors' handler and of run)
PrintExceptions ==
    {[class |-> "UnicodeEncodeError", msg |-> "codec can't encode character"],
     [class |-> "BrokenPipeError", msg |-> "Broken pipe"]}

\* str(e)
str(e) == e.msg

(***************************************************************************)
(* College: the name is the merge key; info stands for every other field   *)
(* of the pydantic model (location, description, tuition, ...).            *)
(***************************************************************************)
CollegeNames == {"MIT", "Yale", "Reed"}

CollegeInfos == {"v1", "v2"}

College == [name : CollegeNames, info : CollegeInfos]

\* update: List[College] | None
NoneUpdate == [is_none |-> TRUE, list |-> <<>>]

ListUpdate(l) == [is_none |-> FALSE, list |-> l]

Updates == {NoneUpdate} \cup {ListUpdate(l) : l \in SeqsUpTo(College, MaxUpdate)}

\* what a node may return for the colleges key
ChannelUpdates ==
    {NoneUpdate} \cup {ListUpdate(l) : l \in SeqsUpTo(College, MaxChannelUpdate)}

\* the colleges lists and updates of two concurrent branches
BranchCurrents == SeqsUpTo(College, MaxBranchCurrent)

BranchUpdates ==
    {NoneUpdate} \cup {ListUpdate(l) : l \in SeqsUpTo(College, MaxBranchUpdate)}

UpdateNames(u) == {u.list[i].name : i \in 1..Len(u.list)}

(***************************************************************************)
(* colleges_reducer (college_agent_schema.py:43-64).                       *)
(***************************************************************************)
\* the inner loop: index of the first entry of result with that name, 0 if none
RECURSIVE FindExisting(_, _, _)
FindExisting(result, name, i) ==
    IF i > Len(result) THEN 0
    ELSE IF result[i].name = name THEN i
    ELSE FindExisting(result, name, i + 1)

\* mutant: the name comparison also compares another field
RECURSIVE FindExistingWholeCollege(_, _, _)
FindExistingWholeCollege(result, new_college, i) ==
    IF i > Len(result) THEN 0
    ELSE IF result[i] = new_college THEN i
    ELSE FindExistingWholeCollege(result, new_college, i + 1)

\* mutant of MergeOne: a college is appended unless the very same college exists
MergeOneAppendDuplicates(result, new_college) ==
    LET i == FindExistingWholeCollege(result, new_college, 1)
    IN  IF i # 0 THEN result ELSE Append(result, new_college)

\* mutant of MergeOne: a replaced college moves to the end of the list
MergeOneMoveToEnd(result, new_college) ==
    LET i == FindExisting(result, new_college.name, 1)
    IN  IF i # 0
        THEN Append(SubSeq(result, 1, i - 1) \o SubSeq(result, i + 1, Len(result)),
                    new_college)
        ELSE Append(result, new_college)

\* mutant of MergeOne: an existing college is kept, the update's one is dropped
MergeOneKeepExisting(result, new_college) ==
    LET i == FindExisting(result, new_college.name, 1)
    IN  IF i # 0 THEN result ELSE Append(result, new_college)

\* one iteration of the outer loop: replace in place, or append
MergeOne(result, new_college) ==
    LET i == FindExisting(result, new_college.name, 1)
    IN  IF i # 0
        THEN [result EXCEPT ![i] = new_college]
        ELSE Append(result, new_college)

\* mutant of MergeFrom: the update replaces the list instead of being merged
MergeFromOverwrite(result, update, j) == update

\* the outer loop over update, from its j-th element
RECURSIVE MergeFrom(_, _, _)
MergeFrom(result, update, j) ==
    IF j > Len(update) THEN result
    ELSE MergeFrom(MergeOne(result, update[j]), update, j + 1)

\* mutant of ListCopy: result = current, the same list object
ListCopyAlias(heap, ref) == [ref |-> ref, heap |-> heap]

\* current.copy(): a new list object with the same elements.  heap maps the
\* list objects ("current", the caller's list, and "copy") to their contents.
ListCopy(heap, ref) == [ref |-> "copy", heap |-> ("copy" :> heap[ref]) @@ heap]

\* the call on list objects: the object returned and the heap it leaves
colleges_reducer_call(current, update) ==
    LET heap0 == [r \in {"current"} |-> current]
    IN  IF update.is_none
        THEN [ref |-> "current", heap |-> heap0]
        ELSE LET result == ListCopy(heap0, "current")
             IN  [ref |-> result.ref,
                  heap |-> [result.heap EXCEPT
                              ![result.ref] = MergeFrom(@, update.list, 1)]]

\* the value returned
colleges_reducer(current, update) ==
    LET call == colleges_reducer_call(current, update)
    IN  call.heap[call.ref]

(***************************************************************************)
(* The marketing graph (marketing_agent.py).                               *)
(*                                                                         *)
(* Values.  Text the model or the web returns is drawn from small sets.    *)
(* max_personas arrives as a Python number: [type, halves] stands for the  *)
(* int or float halves/2.                                                  *)
(***************************************************************************)
PyInt(n) == [type |-> "int", halves |-> 2 * n]

PyFloatHalf(n) == [type |-> "float", halves |-> 2 * n + 1]     \* n + 0.5

MaxPersonasInputs ==
    {PyInt(n) : n \in (-MaxPersonasArg)..MaxPersonasArg}
        \cup {PyFloatHalf(n) : n \in {-2, 1}}

CompetitorHints == {"", "producthunt"}

AppNames == {"BarGPT"}

\* the input the graph is invoked with: the keys its entry node and the
\* nodes after it read before any node has written them
MarketingInputs ==
    {[appUrl |-> "https://bargpt.app", max_personas |-> mp,
      competitor_hint |-> hint] :
        mp \in MaxPersonasInputs, hint \in CompetitorHints}

\* initial_state of run_marketing_analysis, which it starts the graph on
run_marketing_analysis(app_name, max_personas) ==
    [appName |-> app_name, max_personas |-> max_personas,
     human_feedback |-> "", personas |-> <<>>]

\* the external calls of the nodes (get_llm, the model, the web) may raise
CallExceptions ==
    {[class |-> "RuntimeError", msg |-> "rate limit"],
     [class |-> "CancelledError", msg |-> ""]}

\* int(x): an int is itself, a float is truncated toward zero
int(x) ==
    IF x.halves >= 0 THEN x.halves \div 2 ELSE -((-x.halves) \div 2)

\* s[:n], with Python's reading of a negative stop
PySliceTo(s, n) ==
    LET stop == IF n < 0 THEN Max(Len(s) + n, 0) ELSE Min(n, Len(s))
    IN  SubSeq(s, 1, stop)

\* truthiness of a str
Truthy(s) == s # ""

SiteInfos ==
    {[appName |-> "BarGPT", description |-> "cocktail recipes",
      keyfeatures |-> <<"recipes">>, value_proposition |-> "drinks by AI"]}

Persona(i) == [name |-> i]

PersonaResponses ==
    {[personas |-> [i \in 1..k |-> Persona(i)]] : k \in 0..MaxResponsePersonas}

KeywordResponses == {[keywords |-> <<"cocktails">>]}

SearchResult(i) == [link |-> i]

SearchResponses == {[i \in 1..k |-> SearchResult(i)] : k \in 0..MaxSearchResults}

Competitor(i) == [name |-> i]

StrategyResponses == {[strategies |-> <<"ads">>], [strategies |-> <<"blog">>]}

SubredditResponses == {[subreddits |-> <<"r/cocktails">>], [subreddits |-> <<"r/bar">>]}

EmptyUpdate == [k \in {} |-> <<>>]

(***************************************************************************)
(* The node functions: each maps the state it reads and the response it    *)
(* receives to the update it returns.                                      *)
(***************************************************************************)
\* mutant of create_personas: the node stores into the state and returns it
create_personas_whole_state(state, resp) ==
    [k \in DOMAIN state \cup {"personas"} |->
        IF k = "personas"
        THEN PySliceTo(resp.personas, int(state["max_personas"]))
        ELSE state[k]]

create_personas(state, resp) ==
    [personas |-> PySliceTo(resp.personas, int(state["max_personas"]))]

search_web_for_competitors_by_hint(state, results) ==
    IF Truthy(state["competitor_hint"])
    THEN [search_results |-> results]
    ELSE EmptyUpdate

analyze_site(state, parsed) ==
    [appDescription |-> parsed.description,
     keyfeatures |-> parsed.keyfeatures,
     value_proposition |-> parsed.value_proposition,
     appName |-> parsed.appName]

extract_keywords(state, resp) == [keywords |-> resp.keywords]

end(state) == EmptyUpdate

\* the return of finalize_competitors, after the ranking call
finalize_competitors(state, resp) == [competitors |-> resp.competitors]

get_marketing_suggestions(state, resp) ==
    [marketing_suggestions |-> resp.strategies]

\* mutant of get_subreddits: state["subreddits"] = ...; return state
get_subreddits_whole_state(state, resp) ==
    [k \in DOMAIN state \cup {"subreddits"} |->
        IF k = "subreddits" THEN resp.subreddits ELSE state[k]]

get_subreddits(state, resp) == [subreddits |-> resp.subreddits]

\* the keys a node other than finalize_competitors subscripts in the state,
\* in the order it subscripts them: all in its first statement, before any
\* call
ReadKeys(n) ==
    CASE n = "analyze_site" -> <<"appUrl">>
      [] n = "create_personas" ->
            <<"max_personas", "appName", "appDescription", "keyfeatures",
              "value_proposition">>
      [] n = "extract_keywords" -> <<"appName", "value_proposition", "personas">>
      [] n = "search_web_for_competitors_by_hint" -> <<"competitor_hint">>
      [] n \in {"get_marketing_suggestions", "get_subreddits"} ->
            <<"appName", "appDescription", "keyfeatures", "value_proposition",
              "competitors">>
      [] OTHER -> <<>>

\* the keys finalize_competitors subscripts next, from where its frame f
\* stands: search_results at the head of the loop (line 159), nothing in the
\* loop body, appName and appDescription after the loop (line 178)
FcReadKeys(f, state) ==
    CASE f.pc = "start" -> <<"search_results">>
      [] f.pc = "loop" /\ f.idx > Len(state["search_results"]) ->
            <<"appName", "appDescription">>
      [] OTHER -> <<>>

\* the first of keys that state lacks: the key of the KeyError
FirstMissing(keys, state) ==
    keys[CHOOSE i \in 1..Len(keys) :
            /\ keys[i] \notin DOMAIN state
            /\ \A j \in 1..(i - 1) : keys[j] \in DOMAIN state]

(***************************************************************************)
(* finalize_competitors' loop over the search results.  trace lists the    *)
(* passes of the loop body so far: the link, whether the try block ran     *)
(* through, the competitors it extracted, the exception it raised and the  *)
(* exception the handler's print (line 174) raised.                        *)
(***************************************************************************)
FcIdle == [pc |-> "idle", idx |-> 1, results |-> <<>>, trace |-> <<>>]

\* what scrape_web or the extraction may raise
ScrapeExceptions ==
    {[class |-> "Exception", msg |-> "boom"],
     [class |-> "CancelledError", msg |-> "boom"]}

\* how one pass of the loop body may go: the try block runs through, or it
\* raises; an instance of Exception is caught and its line printed, and that
\* print may raise
FcOutcomes(search_result) ==
    {[ok |-> TRUE, competitors |-> cs, raised |-> NoException,
      print_raised |-> NoException] :
        cs \in {<<Competitor(search_result.link)>>, <<>>}}
    \cup
    {o \in [ok : {FALSE}, competitors : {<<>>}, raised : ScrapeExceptions,
             print_raised : {NoException} \cup PrintExceptions] :
        ~IsException(o.raised) => o.print_raised = NoException}

FcEntry(search_result, outcome) ==
    [link |-> search_result.link, ok |-> outcome.ok,
     competitors |-> outcome.competitors, raised |-> outcome.raised,
     print_raised |-> outcome.print_raised]

\* mutant of FcExcept: the handler leaves the loop
FcExceptBreak(f, search_results, search_result, outcome) ==
    [f EXCEPT !.idx = Len(search_results) + 1,
              !.pc = IF outcome.print_raised = NoException THEN @ ELSE "raised",
              !.trace = Append(@, FcEntry(search_result, outcome))]

\* except Exception as e: print(...); continue.  When the print raises, the
\* exception leaves the node.
FcExcept(f, search_results, search_result, outcome) ==
    [f EXCEPT !.idx = IF outcome.print_raised = NoException THEN @ + 1 ELSE @,
              !.pc = IF outcome.print_raised = NoException THEN @ ELSE "raised",
              !.trace = Append(@, FcEntry(search_result, outcome))]

\* one pass of the loop body for search_results[f.idx]
FcIterate(f, search_results, outcome) ==
    LET search_result == search_results[f.idx]
    IN  IF outcome.ok
        THEN [f EXCEPT !.results = @ \o outcome.competitors,
                       !.idx = @ + 1,
                       !.trace = Append(@, FcEntry(search_result, outcome))]
        ELSE IF IsException(outcome.raised)
        THEN FcExcept(f, search_results, search_result, outcome)
        ELSE [f EXCEPT !.pc = "raised",
                       !.trace = Append(@, FcEntry(search_result, outcome))]

\* the exception that leaves the node in a pass of the loop body
FcRaised(outcome) ==
    IF outcome.ok THEN NoException
    ELSE IF IsException(outcome.raised) THEN outcome.print_raised
    ELSE outcome.raised

\* the ranking call returns some of the collected competitors
RankResponses(results) ==
    {[competitors |-> SubSeq(results, 1, k)] : k \in 0..Len(results)}

(***************************************************************************)
(* The graph: nodes, the edge list and the entry point.                    *)
(***************************************************************************)
Nodes ==
    {"analyze_site", "create_personas", "extract_keywords",
     "search_web_for_competitors_by_hint", "finalize_competitors",
     "get_marketing_suggestions", "get_subreddits", "__END__"}

\* mutant of Edges: the two suggestion nodes are also reached from the search
EdgesEarlyBranch ==
    {<<"analyze_site", "create_personas">>,
     <<"create_personas", "extract_keywords">>,
     <<"extract_keywords", "search_web_for_competitors_by_hint">>,
     <<"search_web_for_competitors_by_hint", "finalize_competitors">>,
     <<"search_web_for_competitors_by_hint", "get_subreddits">>,
     <<"finalize_competitors", "get_marketing_suggestions">>,
     <<"get_subreddits", "__END__">>,
     <<"get_marketing_suggestions", "__END__">>}

\* mutant of Edges: a retry edge leads from get_subreddits back to
\* finalize_competitors
EdgesRetry ==
    {<<"analyze_site", "create_personas">>,
     <<"create_personas", "extract_keywords">>,
     <<"extract_keywords", "search_web_for_competitors_by_hint">>,
     <<"search_web_for_competitors_by_hint", "finalize_competitors">>,
     <<"finalize_competitors", "get_marketing_suggestions">>,
     <<"finalize_competitors", "get_subreddits">>,
     <<"get_subreddits", "finalize_competitors">>,
     <<"get_subreddits", "__END__">>,
     <<"get_marketing_suggestions", "__END__">>}

Edges ==
    {<<"analyze_site", "create_personas">>,
     <<"create_personas", "extract_keywords">>,
     <<"extract_keywords", "search_web_for_competitors_by_hint">>,
     <<"search_web_for_competitors_by_hint", "finalize_competitors">>,
     <<"finalize_competitors", "get_marketing_suggestions">>,
     <<"finalize_competitors", "get_subreddits">>,
     <<"get_subreddits", "__END__">>,
     <<"get_marketing_suggestions", "__END__">>}

EntryPoint == "analyze_site"

Predecessors(n) == {e[1] : e \in {d \in Edges : d[2] = n}}

Successors(n) == {e[2] : e \in {d \in Edges : d[1] = n}}

(***************************************************************************)
(* The state channels.  search_results is a list-append channel that       *)
(* starts empty; every other key is replace-by-key and takes one write a   *)
(* step.                                                                   *)
(***************************************************************************)
AppendKeys == {"search_results"}

\* what the channels hold before the input is written
ChannelDefaults == [search_results |-> <<>>]

\* two updates of one super-step write the same replace-by-key key
Conflict(ws) ==
    \E i, j \in 1..Len(ws) :
        /\ i < j
        /\ \E k \in DOMAIN ws[i].update \cap DOMAIN ws[j].update :
              k \notin AppendKeys

ApplyUpdate(state, update) ==
    [k \in DOMAIN state \cup DOMAIN update |->
        IF k \notin DOMAIN update THEN state[k]
        ELSE IF k \in AppendKeys /\ k \in DOMAIN state
             THEN state[k] \o update[k]
             ELSE update[k]]

RECURSIVE ApplyAll(_, _, _)
ApplyAll(state, ws, i) ==
    IF i > Len(ws) THEN state
    ELSE ApplyAll(ApplyUpdate(state, ws[i].update), ws, i + 1)

Triggered(ws) == UNION {Successors(ws[i].node) : i \in 1..Len(ws)}

(***************************************************************************)
(* VacationHouseAgent (vacation_house_agent.py).                           *)
(***************************************************************************)
\* mutant of Tasks: create_tasks returns verify_listings before
\* find_vacation_homes
TasksSwapped ==
    <<"find_candidate_cities", "verify_listings", "find_vacation_homes",
      "find_local_businesses", "summarize">>

\* the list create_tasks returns
Tasks ==
    <<"find_candidate_cities", "find_vacation_homes", "verify_listings",
      "find_local_businesses", "summarize">>

\* the context= of each task, as create_tasks wires them
Context(t) ==
    CASE t = "find_candidate_cities" -> {}
      [] t = "find_vacation_homes" -> {"find_candidate_cities"}
      [] t = "verify_listings" -> {"find_vacation_homes"}
      [] t = "find_local_businesses" -> {"verify_listings"}
      [] t = "summarize" ->
            {"find_candidate_cities", "verify_listings", "find_local_businesses"}

TaskRaws == {"good", "poor"}

\* exceptions kickoff may raise: instances of Exception and of its
\* subclasses, and KeyboardInterrupt
Exceptions ==
    [class : {"Exception", "RuntimeError", "KeyboardInterrupt"},
     msg : {"rate limit", "timeout"}]

\* run's argument: a dict, with or without the key "query"
InputData ==
    {[query |-> "cabin near a lake"], [query |-> "beach house"],
     [location |-> "Outer Banks"]}

\* what kickoff returns: the last task's output and all the outputs
CrewOutput(outputs) ==
    [raw |-> outputs[Len(outputs)].raw, tasks_output |-> outputs]

\* the values run returns: a str or kickoff's CrewOutput
StrValue(s) == [type |-> "str", value |-> s]

OutputValue(o) == [type |-> "CrewOutput", value |-> o]

NoValue == [type |-> "none", value |-> ""]

\* return f"Error running crew: {str(e)}"
RunExcept(e) == "Error running crew: " \o str(e)

\* how a print call may end
PrintOutcomes == {NoException} \cup PrintExceptions

\* except Exception as e: print(f"Crew Error: {e}"), which raises q or
\* nothing, and the return
ExceptBranch(e, q) ==
    IF q = NoException
    THEN [pc |-> "returned", ret |-> StrValue(RunExcept(e)),
          raised |-> NoException, prints |-> <<[line |-> 252, raised |-> q]>>]
    ELSE [pc |-> "raised", ret |-> NoValue, raised |-> q,
          prints |-> <<[line |-> 252, raised |-> q]>>]

\* the try block from the return of kickoff on: print("Crew Results: ",
\* results), which raises p or nothing, and return results; an exception of
\* the print is handled by the except branch
AfterKickoff(results, p, q) ==
    IF p = NoException
    THEN [pc |-> "returned", ret |-> OutputValue(results),
          raised |-> NoException, prints |-> <<[line |-> 249, raised |-> p]>>]
    ELSE [ExceptBranch(p, q) EXCEPT
             !.prints = <<[line |-> 249, raised |-> p]>> \o @]

\* kickoff raised e: the except branch when e is an instance of Exception,
\* and otherwise e leaves run
KickoffRaised(e, q) ==
    IF IsException(e) THEN ExceptBranch(e, q)
    ELSE [pc |-> "raised", ret |-> NoValue, raised |-> e, prints |-> <<>>]

NoKickoffResult == [ended |-> "no"]

(***************************************************************************)
(* Idle values of each part, for the specifications that do not run it.    *)
(***************************************************************************)
ReducerIdle ==
    /\ arg_current = <<>>
    /\ arg_update = NoneUpdate
    /\ ret = <<>>
    /\ ret_ref = "none"
    /\ current_after = <<>>
    /\ rpc = "idle"

ChannelIdle ==
    /\ colleges = <<>>
    /\ last_update = NoneUpdate

BranchIdle ==
    /\ branch_current = <<>>
    /\ branch_u1 = NoneUpdate
    /\ branch_u2 = NoneUpdate
    /\ merged12 = <<>>
    /\ merged21 = <<>>
    /\ branch_pc = "idle"

NoResponse == [node |-> "none"]

MarketIdle ==
    /\ mstate = EmptyUpdate
    /\ pending = {}
    /\ active = {}
    /\ started = <<>>
    /\ completed = <<>>
    /\ writes = <<>>
    /\ response = NoResponse
    /\ mstatus = "idle"
    /\ mexc = NoException
    /\ fc = FcIdle

CrewIdle ==
    /\ crew_pc = "idle"
    /\ input_data = [query |-> ""]
    /\ crew_running = "none"
    /\ task_outputs = <<>>
    /\ kickoff_result = NoKickoffResult
    /\ run_ret = NoValue
    /\ run_raised = NoException
    /\ prints = <<>>

(***************************************************************************)
(* SpecReducer: colleges_reducer applied once to any pair of inputs.       *)
(***************************************************************************)
InitReducer ==
    /\ agent = "colleges_reducer"
    /\ arg_current \in SeqsUpTo(College, MaxCurrent)
    /\ arg_update \in Updates
    /\ ret = <<>>
    /\ ret_ref = "none"
    /\ current_after = arg_current
    /\ rpc = "call"
    /\ ChannelIdle
    /\ BranchIdle
    /\ MarketIdle
    /\ CrewIdle

ReducerCall ==
    /\ rpc = "call"
    /\ ret' = colleges_reducer(arg_current, arg_update)
    /\ ret_ref' = colleges_reducer_call(arg_current, arg_update).ref
    /\ current_after' = colleges_reducer_call(arg_current, arg_update).heap["current"]
    /\ rpc' = "returned"
    /\ UNCHANGED <<agent, arg_current, arg_update>>
    /\ UNCHANGED channelVars
    /\ UNCHANGED branchVars
    /\ UNCHANGED marketVars
    /\ UNCHANGED crewVars

NextReducer == ReducerCall

SpecReducer == InitReducer /\ [][NextReducer]_vars

(***************************************************************************)
(* SpecColleges: the colleges channel of CollegeFinderState, which starts  *)
(* empty and merges every update a node returns with colleges_reducer.     *)
(***************************************************************************)
InitColleges ==
    /\ agent = "college_finder"
    /\ ReducerIdle
    /\ colleges = <<>>
    /\ last_update = NoneUpdate
    /\ BranchIdle
    /\ MarketIdle
    /\ CrewIdle

ChannelUpdate ==
    \E u \in ChannelUpdates :
        /\ agent = "college_finder"
        /\ colleges' = colleges_reducer(colleges, u)
        /\ last_update' = u
        /\ UNCHANGED reducerVars
        /\ UNCHANGED branchVars
        /\ UNCHANGED marketVars
        /\ UNCHANGED crewVars

NextColleges == ChannelUpdate

SpecColleges == InitColleges /\ [][NextColleges]_vars

(***************************************************************************)
(* SpecBranches: two branches of one super-step each return an update for   *)
(* the colleges channel, touching different colleges; the channel merges    *)
(* them with colleges_reducer in the order the branches are taken, and both *)
(* orders are computed.                                                     *)
(***************************************************************************)
InitBranches ==
    /\ agent = "college_finder_branches"
    /\ ReducerIdle
    /\ ChannelIdle
    /\ MarketIdle
    /\ CrewIdle
    /\ branch_u1 \in BranchUpdates
    /\ branch_u2 \in {u \in BranchUpdates :
                        UpdateNames(branch_u1) \cap UpdateNames(u) = {}}
    /\ branch_current \in BranchCurrents
    /\ merged12 = <<>>
    /\ merged21 = <<>>
    /\ branch_pc = "merge"

MergeBranches ==
    /\ branch_pc = "merge"
    /\ merged12' = colleges_reducer(colleges_reducer(branch_current, branch_u1),
                                    branch_u2)
    /\ merged21' = colleges_reducer(colleges_reducer(branch_current, branch_u2),
                                    branch_u1)
    /\ branch_pc' = "merged"
    /\ UNCHANGED <<branch_current, branch_u1, branch_u2>>
    /\ UNCHANGED reducerVars
    /\ UNCHANGED channelVars
    /\ UNCHANGED marketVars
    /\ UNCHANGED crewVars

NextBranches == MergeBranches

SpecBranches == InitBranches /\ [][NextBranches]_vars

(***************************************************************************)
(* SpecMarketing: one run of the compiled marketing graph.  The graph runs *)
(* in super-steps: the nodes triggered for a step start and return in any  *)
(* order, all reading the state as it was when the step began; when all    *)
(* have returned their updates are merged into the state and the nodes     *)
(* their edges lead to are triggered.  A node that raises ends the run.    *)
(***************************************************************************)
InitMarketing ==
    /\ agent = "marketing"
    /\ ReducerIdle
    /\ ChannelIdle
    /\ BranchIdle
    /\ CrewIdle
    /\ \E input \in MarketingInputs
                      \cup {run_marketing_analysis(app_name, mp) :
                              app_name \in AppNames, mp \in MaxPersonasInputs} :
          mstate = ApplyUpdate(ChannelDefaults, input)
    /\ pending = {EntryPoint}
    /\ active = {}
    /\ started = <<>>
    /\ completed = <<>>
    /\ writes = <<>>
    /\ response = NoResponse
    /\ mstatus = "running"
    /\ mexc = NoException
    /\ fc = FcIdle

StartNode ==
    \E n \in pending :
        /\ mstatus = "running"
        /\ pending' = pending \ {n}
        /\ active' = active \cup {n}
        /\ started' = Append(started, n)
        /\ fc' = IF n = "finalize_competitors"
                 THEN [FcIdle EXCEPT !.pc = "start"]
                 ELSE fc
        /\ UNCHANGED <<mstate, completed, writes, response, mstatus, mexc>>
        /\ UNCHANGED reducerVars
        /\ UNCHANGED channelVars
        /\ UNCHANGED branchVars
        /\ UNCHANGED crewVars

\* the keys node n subscripts next
PendingReads(n) ==
    IF n = "finalize_competitors" THEN FcReadKeys(fc, mstate) ELSE ReadKeys(n)

\* node n is under way and the state has the keys it subscripts next
CanRun(n) ==
    /\ mstatus = "running"
    /\ n \in active
    /\ Range(PendingReads(n)) \subseteq DOMAIN mstate

\* the node returns update, having received resp
Return(n, update, resp) ==
    /\ active' = active \ {n}
    /\ completed' = Append(completed, n)
    /\ writes' = Append(writes, [node |-> n, update |-> update])
    /\ response' = [node |-> n, value |-> resp]
    /\ UNCHANGED <<mstate, pending, started, mstatus, mexc>>
    /\ UNCHANGED reducerVars
    /\ UNCHANGED channelVars
    /\ UNCHANGED branchVars
    /\ UNCHANGED crewVars

AnalyzeSite ==
    /\ CanRun("analyze_site")
    /\ \E parsed \in SiteInfos :
          Return("analyze_site", analyze_site(mstate, parsed), parsed)
    /\ UNCHANGED fc

CreatePersonas ==
    /\ CanRun("create_personas")
    /\ \E resp \in PersonaResponses :
          Return("create_personas", create_personas(mstate, resp), resp)
    /\ UNCHANGED fc

ExtractKeywords ==
    /\ CanRun("extract_keywords")
    /\ \E resp \in KeywordResponses :
          Return("extract_keywords", extract_keywords(mstate, resp), resp)
    /\ UNCHANGED fc

SearchWebForCompetitorsByHint ==
    /\ CanRun("search_web_for_competitors_by_hint")
    /\ \E results \in SearchResponses :
          /\ Truthy(mstate["competitor_hint"]) \/ results = <<>>
          /\ Return("search_web_for_competitors_by_hint",
                    search_web_for_competitors_by_hint(mstate, results), results)
    /\ UNCHANGED fc

\* get_llm() and the head of the loop, which subscripts search_results
FinalizeCompetitorsBegin ==
    /\ CanRun("finalize_competitors")
    /\ fc.pc = "start"
    /\ fc' = [fc EXCEPT !.pc = "loop"]
    /\ UNCHANGED <<mstate, pending, active, started, completed, writes,
                   response, mstatus, mexc>>
    /\ UNCHANGED reducerVars
    /\ UNCHANGED channelVars
    /\ UNCHANGED branchVars
    /\ UNCHANGED crewVars

\* one search result: scrape, extract, extend, or the except branch, or an
\* exception that leaves the node
FinalizeCompetitorsLoop ==
    /\ CanRun("finalize_competitors")
    /\ fc.pc = "loop"
    /\ fc.idx <= Len(mstate["search_results"])
    /\ \E outcome \in FcOutcomes(mstate["search_results"][fc.idx]) :
          /\ fc' = FcIterate(fc, mstate["search_results"], outcome)
          /\ mexc' = FcRaised(outcome)
          /\ mstatus' = IF FcRaised(outcome) = NoException THEN mstatus
                        ELSE "raised"
    /\ UNCHANGED <<mstate, pending, active, started, completed, writes,
                   response>>
    /\ UNCHANGED reducerVars
    /\ UNCHANGED channelVars
    /\ UNCHANGED branchVars
    /\ UNCHANGED crewVars

\* the loop is over: the prompt with appName and appDescription, the ranking
\* call and the return
FinalizeCompetitorsRank ==
    /\ CanRun("finalize_competitors")
    /\ fc.pc = "loop"
    /\ fc.idx > Len(mstate["search_results"])
    /\ \E resp \in RankResponses(fc.results) :
          Return("finalize_competitors", finalize_competitors(mstate, resp), resp)
    /\ fc' = [fc EXCEPT !.pc = "done"]

GetMarketingSuggestions ==
    /\ CanRun("get_marketing_suggestions")
    /\ \E resp \in StrategyResponses :
          Return("get_marketing_suggestions",
                 get_marketing_suggestions(mstate, resp), resp)
    /\ UNCHANGED fc

GetSubreddits ==
    /\ CanRun("get_subreddits")
    /\ \E resp \in SubredditResponses :
          Return("get_subreddits", get_subreddits(mstate, resp), resp)
    /\ UNCHANGED fc

End ==
    /\ CanRun("__END__")
    /\ Return("__END__", end(mstate), NoResponse)
    /\ UNCHANGED fc

\* the node raises and the run ends with its exception
Raise(n, e) ==
    /\ mstatus' = "raised"
    /\ mexc' = e
    /\ fc' = IF n = "finalize_competitors" THEN [fc EXCEPT !.pc = "raised"]
             ELSE fc
    /\ UNCHANGED <<mstate, pending, active, started, completed, writes,
                   response>>
    /\ UNCHANGED reducerVars
    /\ UNCHANGED channelVars
    /\ UNCHANGED branchVars
    /\ UNCHANGED crewVars

\* a node subscripts a key the state lacks: KeyError
NodeKeyError ==
    \E n \in active :
        /\ mstatus = "running"
        /\ ~(Range(PendingReads(n)) \subseteq DOMAIN mstate)
        /\ Raise(n, KeyError(FirstMissing(PendingReads(n), mstate)))

\* the node's next statement after its subscripts is an external call:
\* __END__ makes none, the search node only with a hint, finalize_competitors
\* get_llm() at its start and the ranking call after the loop (the calls of
\* the loop body are FinalizeCompetitorsLoop's)
MakesCall(n) ==
    CASE n = "__END__" -> FALSE
      [] n = "search_web_for_competitors_by_hint" ->
            Truthy(mstate["competitor_hint"])
      [] n = "finalize_competitors" ->
            \/ fc.pc = "start"
            \/ fc.pc = "loop" /\ fc.idx > Len(mstate["search_results"])
      [] OTHER -> TRUE

\* an external call of a node raises outside a try block
NodeCallRaises ==
    \E n \in active :
        /\ mstatus = "running"
        /\ (n = "finalize_competitors" /\ fc.pc = "start") \/ CanRun(n)
        /\ MakesCall(n)
        /\ \E e \in CallExceptions : Raise(n, e)

\* the nodes that print before their external call: analyze_site prints the
\* url (line 89) after it has subscripted appUrl and before it awaits
\* scrape_web_agent
PrintsBeforeCall(n) == n = "analyze_site"

\* that print raises: the node ends with the print's exception and makes no
\* call
NodePrintRaises ==
    \E n \in active :
        /\ CanRun(n)
        /\ PrintsBeforeCall(n)
        /\ \E p \in PrintExceptions : Raise(n, p)

\* the end of a super-step: merge the updates, trigger the next nodes
ApplyWrites ==
    /\ mstatus = "running"
    /\ pending = {}
    /\ active = {}
    /\ writes # <<>>
    /\ IF Conflict(writes)
       THEN /\ mstatus' = "InvalidUpdateError"
            /\ UNCHANGED <<mstate, pending>>
       ELSE /\ mstate' = ApplyAll(mstate, writes, 1)
            /\ pending' = Triggered(writes)
            /\ mstatus' = IF Triggered(writes) = {} THEN "finished" ELSE "running"
    /\ writes' = <<>>
    /\ response' = NoResponse
    /\ UNCHANGED <<active, started, completed, mexc, fc>>
    /\ UNCHANGED reducerVars
    /\ UNCHANGED channelVars
    /\ UNCHANGED branchVars
    /\ UNCHANGED crewVars

NextMarketing ==
    \/ StartNode
    \/ AnalyzeSite
    \/ CreatePersonas
    \/ ExtractKeywords
    \/ SearchWebForCompetitorsByHint
    \/ FinalizeCompetitorsBegin
    \/ FinalizeCompetitorsLoop
    \/ FinalizeCompetitorsRank
    \/ GetMarketingSuggestions
    \/ GetSubreddits
    \/ End
    \/ NodeKeyError
    \/ NodeCallRaises
    \/ NodePrintRaises
    \/ ApplyWrites

SpecMarketing == InitMarketing /\ [][NextMarketing]_vars

\* the steps a run takes by itself: all but NodeCallRaises and
\* NodePrintRaises, the failure of an external call or of a print
NextMarketingSteps ==
    \/ StartNode
    \/ AnalyzeSite
    \/ CreatePersonas
    \/ ExtractKeywords
    \/ SearchWebForCompetitorsByHint
    \/ FinalizeCompetitorsBegin
    \/ FinalizeCompetitorsLoop
    \/ FinalizeCompetitorsRank
    \/ GetMarketingSuggestions
    \/ GetSubreddits
    \/ End
    \/ NodeKeyError
    \/ ApplyWrites

\* FairSpecMarketing: the runner starts every triggered node and ends every
\* super-step, a node that subscripts a missing key raises, and a call that
\* does not raise returns.
FairSpecMarketing ==
    InitMarketing /\ [][NextMarketing]_vars /\ WF_vars(NextMarketingSteps)

(***************************************************************************)
(* SpecCrew: one call of VacationHouseAgent.run.  The crew runs its tasks  *)
(* with Process.sequential: one at a time, in the order of the list, each  *)
(* handed the outputs of its context tasks.                                *)
(***************************************************************************)
InitCrew ==
    /\ agent = "vacation_house"
    /\ ReducerIdle
    /\ ChannelIdle
    /\ BranchIdle
    /\ MarketIdle
    /\ crew_pc = "start"
    /\ input_data \in InputData
    /\ crew_running = "none"
    /\ task_outputs = <<>>
    /\ kickoff_result = NoKickoffResult
    /\ run_ret = NoValue
    /\ run_raised = NoException
    /\ prints = <<>>

DoneTasks == {task_outputs[i].task : i \in 1..Len(task_outputs)}

\* query = input_data["query"], then the agents, the tasks and the crew are
\* built
RunStart ==
    /\ crew_pc = "start"
    /\ IF "query" \in DOMAIN input_data
       THEN /\ crew_pc' = "kickoff"
            /\ UNCHANGED run_raised
       ELSE /\ crew_pc' = "raised"
            /\ run_raised' = KeyError("query")
    /\ UNCHANGED <<input_data, crew_running, task_outputs, kickoff_result,
                   run_ret, prints>>
    /\ UNCHANGED reducerVars
    /\ UNCHANGED channelVars
    /\ UNCHANGED branchVars
    /\ UNCHANGED marketVars

\* kickoff takes the next task of the list
StartTask ==
    /\ crew_pc = "kickoff"
    /\ crew_running = "none"
    /\ Len(task_outputs) < Len(Tasks)
    /\ crew_running' = Tasks[Len(task_outputs) + 1]
    /\ UNCHANGED <<crew_pc, input_data, task_outputs, kickoff_result, run_ret,
                   run_raised, prints>>
    /\ UNCHANGED reducerVars
    /\ UNCHANGED channelVars
    /\ UNCHANGED branchVars
    /\ UNCHANGED marketVars

\* the task's agent answers; context lists the context tasks whose outputs it
\* was handed
FinishTask ==
    /\ crew_pc = "kickoff"
    /\ crew_running # "none"
    /\ \E raw \in TaskRaws :
          task_outputs' = Append(task_outputs,
                                 [task |-> crew_running, raw |-> raw,
                                  context |-> Context(crew_running) \cap DoneTasks])
    /\ crew_running' = "none"
    /\ UNCHANGED <<crew_pc, input_data, kickoff_result, run_ret, run_raised,
                   prints>>
    /\ UNCHANGED reducerVars
    /\ UNCHANGED channelVars
    /\ UNCHANGED branchVars
    /\ UNCHANGED marketVars

\* results = crew.kickoff(); print("Crew Results: ", results); return results
KickoffReturns ==
    /\ crew_pc = "kickoff"
    /\ crew_running = "none"
    /\ Len(task_outputs) = Len(Tasks)
    /\ kickoff_result' = [ended |-> "returned", value |-> CrewOutput(task_outputs)]
    /\ \E p \in PrintOutcomes, q \in PrintOutcomes :
          LET out == AfterKickoff(CrewOutput(task_outputs), p, q)
          IN  /\ p = NoException => q = NoException
              /\ crew_pc' = out.pc
              /\ run_ret' = out.ret
              /\ run_raised' = out.raised
              /\ prints' = out.prints
    /\ UNCHANGED <<input_data, crew_running, task_outputs>>
    /\ UNCHANGED reducerVars
    /\ UNCHANGED channelVars
    /\ UNCHANGED branchVars
    /\ UNCHANGED marketVars

\* kickoff raises, before or during a task: run's except branch, or the
\* exception leaves run
KickoffRaises ==
    /\ crew_pc = "kickoff"
    /\ \E e \in Exceptions, q \in PrintOutcomes :
          LET out == KickoffRaised(e, q)
          IN  /\ ~IsException(e) => q = NoException
              /\ kickoff_result' = [ended |-> "raised", exception |-> e]
              /\ crew_pc' = out.pc
              /\ run_ret' = out.ret
              /\ run_raised' = out.raised
              /\ prints' = out.prints
    /\ UNCHANGED <<input_data, crew_running, task_outputs>>
    /\ UNCHANGED reducerVars
    /\ UNCHANGED channelVars
    /\ UNCHANGED branchVars
    /\ UNCHANGED marketVars

NextCrew ==
    \/ RunStart
    \/ StartTask
    \/ FinishTask
    \/ KickoffReturns
    \/ KickoffRaises

SpecCrew == InitCrew /\ [][NextCrew]_vars

(***************************************************************************)
(* Spec: any one of these is run.                                          *)
(***************************************************************************)
Init == InitReducer \/ InitColleges \/ InitBranches \/ InitMarketing \/ InitCrew

Next == NextReducer \/ NextColleges \/ NextBranches \/ NextMarketing \/ NextCrew

Spec == Init /\ [][Next]_vars

(***************************************************************************)
(* Claims about VacationHouseAgent.                                        *)
(***************************************************************************)
\* C6: run never propagates an exception raised by crew.kickoff(): when
\* kickoff raises with message m run returns "Error running crew: m", and
\* when kickoff succeeds run returns exactly the value kickoff returned.  The
\* first part is read for the exceptions that except Exception catches, with
\* the handler's own print going through.
C6_RunCatchesKickoff ==
    /\ (/\ kickoff_result.ended = "raised"
        /\ IsException(kickoff_result.exception)
        /\ \A i \in 1..Len(prints) : prints[i].raised = NoException) =>
          /\ crew_pc = "returned"
          /\ run_ret = StrValue("Error running crew: "
                                    \o kickoff_result.exception.msg)
    /\ kickoff_result.ended = "returned" =>
          /\ crew_pc = "returned"
          /\ run_ret.type = "CrewOutput"
          /\ run_ret.value = kickoff_result.value

\* C7: the five tasks are processed one at a time in the order
\* find_candidate_cities, find_vacation_homes, verify_listings,
\* find_local_businesses, summarize, and a task starts only after every task
\* of its context has finished.
C7_LinearTaskChain ==
    /\ IsPrefix([i \in 1..Len(task_outputs) |-> task_outputs[i].task],
                <<"find_candidate_cities", "find_vacation_homes",
                  "verify_listings", "find_local_businesses", "summarize">>)
    /\ \A i \in 1..Len(task_outputs) :
          /\ task_outputs[i].context = Context(task_outputs[i].task)
          /\ \A c \in Context(task_outputs[i].task) :
                \E j \in 1..(i - 1) : task_outputs[j].task = c
    /\ crew_running # "none" =>
          /\ crew_running \notin DoneTasks
          /\ Context(crew_running) \subseteq DoneTasks
    /\ kickoff_result.ended = "returned" => Len(task_outputs) = 5

\* C7 witness: kickoff returned after summarize ran with its three context
\* tasks finished.
C7_Witness ==
    /\ crew_pc = "returned"
    /\ kickoff_result.ended = "returned"
    /\ Len(task_outputs) = 5
    /\ task_outputs[5].task = "summarize"
    /\ Cardinality(task_outputs[5].context) = 3

(***************************************************************************)
(* Claims about the marketing graph.                                       *)
(***************************************************************************)
Reverse(s) == [i \in 1..Len(s) |-> s[Len(s) + 1 - i]]

Chain ==
    <<"analyze_site", "create_personas", "extract_keywords",
      "search_web_for_competitors_by_hint", "finalize_competitors">>

BranchNodes == {"get_marketing_suggestions", "get_subreddits"}

WriteNodes(ws) == {ws[i].node : i \in 1..Len(ws)}

\* C2: the nodes start in the order analyze_site, create_personas,
\* extract_keywords, search_web_for_competitors_by_hint, finalize_competitors,
\* then get_marketing_suggestions and get_subreddits (in either order), then
\* __END__; no node starts before every one of its predecessors has returned;
\* and a run that finishes has executed every node, whatever the state holds.
C2_StaticSequencing ==
    /\ \/ IsPrefix(started, Chain \o <<"get_marketing_suggestions",
                                       "get_subreddits", "__END__">>)
       \/ IsPrefix(started, Chain \o <<"get_subreddits",
                                       "get_marketing_suggestions", "__END__">>)
    /\ \A i \in 1..Len(started) :
          \A p \in Nodes :
              <<p, started[i]>> \in Edges =>
                  p \in Range(completed) /\ p \notin active
    /\ mstatus = "finished" => Range(started) = Nodes /\ Range(completed) = Nodes

\* C2 witness: a finished run with no competitor hint (the search node
\* returned nothing) in which get_subreddits started before
\* get_marketing_suggestions.
C2_Witness ==
    /\ mstatus = "finished"
    /\ mstate["competitor_hint"] = ""
    /\ started[6] = "get_subreddits"

\* C3: the two branches after finalize_competitors write disjoint keys
\* (marketing_suggestions, subreddits), neither returns the whole state, no
\* InvalidUpdateError state is reachable, and merging their updates gives the
\* same state in either order of return.
C3_BranchesDisjoint ==
    /\ [](/\ mstatus # "InvalidUpdateError"
          /\ \A i \in 1..Len(writes) :
                /\ writes[i].node = "get_marketing_suggestions" =>
                      DOMAIN writes[i].update = {"marketing_suggestions"}
                /\ writes[i].node = "get_subreddits" =>
                      DOMAIN writes[i].update = {"subreddits"}
          /\ \A i, j \in 1..Len(writes) :
                i # j => DOMAIN writes[i].update \cap DOMAIN writes[j].update = {})
    /\ [][(mstatus = "running" /\ WriteNodes(writes) = BranchNodes
              /\ writes' = <<>>) =>
            /\ mstatus' = "running"
            /\ mstate' = ApplyAll(mstate, Reverse(writes), 1)
            /\ mstate'["marketing_suggestions"]
                  = (CHOOSE w \in Range(writes) :
                        w.node = "get_marketing_suggestions").update["marketing_suggestions"]
            /\ mstate'["subreddits"]
                  = (CHOOSE w \in Range(writes) :
                        w.node = "get_subreddits").update["subreddits"]]_vars

\* C3 witness: a finished run in which get_subreddits, started second,
\* returned first, and both keys were merged.
C3_Witness ==
    /\ mstatus = "finished"
    /\ started[6] = "get_marketing_suggestions"
    /\ completed[6] = "get_subreddits"
    /\ {"marketing_suggestions", "subreddits"} \subseteq DOMAIN mstate

\* the keys the claim gives each node
ClaimedKeys(n) ==
    CASE n = "analyze_site" ->
            {"appDescription", "keyfeatures", "value_proposition", "appName"}
      [] n = "create_personas" -> {"personas"}
      [] n = "extract_keywords" -> {"keywords"}
      [] n = "search_web_for_competitors_by_hint" -> {"search_results"}
      [] n = "finalize_competitors" -> {"competitors"}
      [] n = "get_marketing_suggestions" -> {"marketing_suggestions"}
      [] n = "get_subreddits" -> {"subreddits"}
      [] OTHER -> {}

\* C4: every node returns a partial update naming only its own keys, and
\* after the update is merged every key outside the set of the nodes of that
\* step is as it was before (present with the same value, or still absent).
C4_PartialUpdates ==
    /\ [](\A i \in 1..Len(writes) :
            DOMAIN writes[i].update \subseteq ClaimedKeys(writes[i].node))
    /\ [][mstate' # mstate =>
            \A k \in (DOMAIN mstate \cup DOMAIN mstate')
                        \ UNION {ClaimedKeys(n) : n \in WriteNodes(writes)} :
                /\ k \in DOMAIN mstate
                /\ k \in DOMAIN mstate'
                /\ mstate'[k] = mstate[k]]_vars

\* C4 witness: __END__ has returned its empty update after every other node's
\* update was merged, the search having returned results.
C4_Witness ==
    /\ mstatus = "running"
    /\ Len(writes) = 1
    /\ writes[1].node = "__END__"
    /\ DOMAIN writes[1].update = {}
    /\ mstate["search_results"] # <<>>
    /\ {"appName", "personas", "keywords", "competitors",
        "marketing_suggestions", "subreddits"} \subseteq DOMAIN mstate

RECURSIVE CollectedFrom(_, _)
CollectedFrom(trace, i) ==
    IF i > Len(trace) THEN <<>>
    ELSE (IF trace[i].ok THEN trace[i].competitors ELSE <<>>)
            \o CollectedFrom(trace, i + 1)

\* C5: in finalize_competitors an exception while scraping or extracting for
\* one search result is caught and logged: the loop goes on with the
\* remaining results, the competitors collected so far are kept, no result is
\* tried twice, the node reaches the ranking call, and no pass of the loop
\* body ends the node.
C5_CatchAndContinue ==
    fc.pc # "idle" =>
        LET search_results == mstate["search_results"]
        IN  /\ fc.results = CollectedFrom(fc.trace, 1)
            /\ Len(fc.trace) <= Len(search_results)
            /\ \A i \in 1..Len(fc.trace) :
                  /\ fc.trace[i].link = search_results[i].link
                  /\ FcRaised(fc.trace[i]) = NoException
            /\ fc.pc = "loop" =>
                  /\ fc.idx = Len(fc.trace) + 1
                  /\ fc.idx > Len(search_results) =>
                        ENABLED FinalizeCompetitorsRank
            /\ fc.pc = "done" =>
                  /\ Len(fc.trace) = Len(search_results)
                  /\ "finalize_competitors" \in Range(completed)
            /\ fc.pc = "raised" =>
                  fc.trace = <<>> \/ Len(fc.trace) = Len(search_results)

\* C5, amended: an exception while scraping or extracting for one search
\* result that is an instance of Exception is caught, and when its line is
\* printed without error the loop goes on with the remaining results and the
\* node reaches the ranking call; the competitors collected so far are kept
\* and no result is tried twice.  A pass of the loop body ends the node only
\* by an exception that is not an instance of Exception or by an exception of
\* the handler's print, and that pass is the last.
C5_CatchExceptionAndContinue ==
    fc.pc # "idle" =>
        LET search_results == mstate["search_results"]
        IN  /\ fc.results = CollectedFrom(fc.trace, 1)
            /\ Len(fc.trace) <= Len(search_results)
            /\ \A i \in 1..Len(fc.trace) :
                  LET t == fc.trace[i]
                  IN  /\ t.link = search_results[i].link
                      /\ (/\ ~t.ok
                          /\ IsException(t.raised)
                          /\ t.print_raised = NoException) =>
                            \/ fc.pc \in {"loop", "done"}
                            \/ /\ fc.pc = "raised"
                               /\ \/ i < Len(fc.trace)
                                  \/ Len(fc.trace) = Len(search_results)
                      /\ FcRaised(t) # NoException =>
                            /\ ~t.ok
                            /\ \/ ~IsException(t.raised)
                               \/ t.print_raised \in PrintExceptions
                            /\ i = Len(fc.trace)
                            /\ fc.pc = "raised"
                            /\ mstatus = "raised"
                            /\ mexc = FcRaised(t)
            /\ fc.pc = "loop" =>
                  /\ fc.idx = Len(fc.trace) + 1
                  /\ fc.idx > Len(search_results) =>
                        ENABLED FinalizeCompetitorsRank
            /\ fc.pc = "done" =>
                  /\ Len(fc.trace) = Len(search_results)
                  /\ "finalize_competitors" \in Range(completed)
            /\ (/\ fc.pc = "raised"
                /\ \A i \in 1..Len(fc.trace) :
                      FcRaised(fc.trace[i]) = NoException) =>
                  fc.trace = <<>> \/ Len(fc.trace) = Len(search_results)

\* C5 witness: the node returned after a first result that gave a competitor
\* and a second result whose exception was caught and printed.
C5_Witness ==
    /\ fc.pc = "done"
    /\ Len(fc.trace) = 2
    /\ fc.trace[1].ok
    /\ ~fc.trace[2].ok
    /\ IsException(fc.trace[2].raised)
    /\ fc.trace[2].print_raised = NoException
    /\ fc.results = <<Competitor(1)>>

\* C8: create_personas takes only up to max_personas personas: for an integer
\* max_personas and a response with k personas the personas update is a prefix
\* of the response's list, has at most max_personas elements (none when
\* max_personas is negative), and has min(k, max_personas) elements whenever
\* that is a length.
C8_TakeUpToMaxPersonas ==
    (response.node = "create_personas" /\ mstate["max_personas"].type = "int") =>
        LET k == Len(response.value.personas)
            max_personas == mstate["max_personas"].halves \div 2
            update == writes[Len(writes)].update
        IN  /\ IsPrefix(update["personas"], response.value.personas)
            /\ Len(update["personas"]) <= Max(max_personas, 0)
            /\ Min(k, max_personas) >= 0 =>
                  Len(update["personas"]) = Min(k, max_personas)

(***************************************************************************)
(* Claims about colleges_reducer.                                          *)
(***************************************************************************)
NamesOf(s) == [i \in 1..Len(s) |-> s[i].name]

HasName(s, name) == \E i \in 1..Len(s) : s[i].name = name

FirstWithName(s, name) ==
    s[CHOOSE i \in 1..Len(s) :
        /\ s[i].name = name
        /\ \A k \in 1..(i - 1) : s[k].name # name]

LastWithName(s, name) ==
    s[CHOOSE i \in 1..Len(s) :
        /\ s[i].name = name
        /\ \A k \in (i + 1)..Len(s) : s[k].name # name]

ReducerReturnedList == rpc = "returned" /\ ~arg_update.is_none

\* C1: colleges_reducer merges by name: for every current and every non-None
\* update, each name occurring in update is present in the result, and the
\* first result entry with that name equals the last college of update
\* carrying that name.
C1_MergeByName ==
    ReducerReturnedList =>
        \A j \in 1..Len(arg_update.list) :
            LET name == arg_update.list[j].name
            IN  /\ HasName(ret, name)
                /\ FirstWithName(ret, name) = LastWithName(arg_update.list, name)

\* C1 witness: a call whose update replaces an existing college, names that
\* college twice with different values, and adds a college with an unseen name.
C1_Witness ==
    /\ ReducerReturnedList
    /\ \E a, b \in 1..Len(arg_update.list) :
          /\ a < b
          /\ arg_update.list[a].name = arg_update.list[b].name
          /\ arg_update.list[a] # arg_update.list[b]
          /\ HasName(arg_current, arg_update.list[a].name)
          /\ FirstWithName(arg_current, arg_update.list[a].name) # arg_update.list[b]
    /\ \E c \in 1..Len(arg_update.list) :
          ~HasName(arg_current, arg_update.list[c].name)

\* C9: starting from an empty colleges list, after any sequence of
\* colleges_reducer applications no two entries of the list share a name.
C9_UniqueNames ==
    \A i, j \in 1..Len(colleges) :
        i # j => colleges[i].name # colleges[j].name

\* C9 witness: the channel holds every name after merging an update that
\* repeats a name within itself.
C9_Witness ==
    /\ Len(colleges) = Cardinality(CollegeNames)
    /\ ~last_update.is_none
    /\ \E a, b \in 1..Len(last_update.list) :
          /\ a < b
          /\ last_update.list[a].name = last_update.list[b].name
          /\ last_update.list[a] # last_update.list[b]

\* the names of update that do not occur in current, each once, in the order
\* of their first occurrence in update
RECURSIVE NewNamesInOrder(_, _, _)
NewNamesInOrder(update, seen, j) ==
    IF j > Len(update) THEN <<>>
    ELSE IF update[j].name \in seen THEN NewNamesInOrder(update, seen, j + 1)
    ELSE <<update[j].name>>
            \o NewNamesInOrder(update, seen \cup {update[j].name}, j + 1)

\* C10: colleges_reducer never removes or reorders entries: the result is at
\* least as long as current, the names of current are a prefix of the names of
\* the result, and the names new to current follow in the order of their first
\* occurrence in update.
C10_NoRemoveNoReorder ==
    ReducerReturnedList =>
        /\ Len(ret) >= Len(arg_current)
        /\ SubSeq(NamesOf(ret), 1, Len(arg_current)) = NamesOf(arg_current)
        /\ SubSeq(NamesOf(ret), Len(arg_current) + 1, Len(ret))
              = NewNamesInOrder(arg_update.list, Range(NamesOf(arg_current)), 1)

\* C10 witness: current is not empty, the update replaces its first college
\* and adds two new names.
C10_Witness ==
    /\ ReducerReturnedList
    /\ Len(arg_current) >= 1
    /\ Len(ret) = Len(arg_current) + 2
    /\ \E j \in 1..Len(arg_update.list) :
          /\ arg_update.list[j].name = arg_current[1].name
          /\ arg_update.list[j] # arg_current[1]

\* C11: colleges_reducer leaves its inputs untouched: when update is None it
\* returns current itself, unchanged; when update is a list the list passed as
\* current has the same length and the same elements after the call as before,
\* every replacement and append being made on a copy.
C11_InputsUntouched ==
    rpc = "returned" =>
        /\ current_after = arg_current
        /\ arg_update.is_none => ret_ref = "current" /\ ret = arg_current
        /\ ~arg_update.is_none => ret_ref = "copy"

\* C11 witness: a call with a list update that replaced a college of current
\* and appended another, so the result differs from current in both ways.
C11_Witness ==
    /\ ReducerReturnedList
    /\ Len(arg_current) >= 1
    /\ Len(ret) > Len(arg_current)
    /\ \E i \in 1..Len(arg_current) : ret[i] # arg_current[i]

CountOf(s, c) == Cardinality({i \in 1..Len(s) : s[i] = c})

\* C12: merging the colleges updates of two concurrent branches whose name
\* sets are disjoint gives, in either order, the same colleges: the same
\* names, each with the same value, as often; only the list order may differ.
C12_DisjointMergeCommutes ==
    (/\ branch_pc = "merged"
     /\ UpdateNames(branch_u1) \cap UpdateNames(branch_u2) = {}) =>
        /\ Len(merged12) = Len(merged21)
        /\ Range(merged12) = Range(merged21)
        /\ \A c \in Range(merged12) : CountOf(merged12, c) = CountOf(merged21, c)

\* C12 witness: one branch replaced a college of current, both branches added
\* a college, and the two orders give lists in different order.
C12_Witness ==
    /\ branch_pc = "merged"
    /\ merged12 # merged21
    /\ Len(branch_current) >= 1
    /\ merged12[1] # branch_current[1]
    /\ Len(merged12) = Len(branch_current) + 2

\* C13: the marketing graph has no cycle and no retry: in every run each node
\* executes at most once, and every run in which no node raises eventually
\* reaches the __END__ node and stops, with nothing left to start or merge.
C13_AtMostOnceAndTerminates ==
    /\ [](\A i, j \in 1..Len(started) : i # j => started[i] # started[j])
    /\ [](mstatus = "finished" =>
            /\ completed[Len(completed)] = "__END__"
            /\ pending = {}
            /\ active = {}
            /\ writes = <<>>)
    /\ <>(mstatus = "raised" \/ mstatus = "finished")

\* C13 witness: a run that finished with __END__ executed last, no node
\* having raised, the search having returned the most results.
C13_Witness ==
    /\ mstatus = "finished"
    /\ Len(started) = Cardinality(Nodes)
    /\ completed[Len(completed)] = "__END__"
    /\ Len(mstate["search_results"]) = MaxSearchResults

=============================================================================
